---- MODULE Spec2Model ----
(***************************************************************************)
(* A model of pygantt.py: the FileWatcher (mtime polling), parse_csv (the  *)
(* sectioned CSV parser), Gantt.plot (flattening, colors, legend) and the  *)
(* poll/render loop of the command line driver.                            *)
(*                                                                         *)
(* Python values are encoded as follows.                                   *)
(*   str          a sequence of one-character strings                      *)
(*   None / x     None is <<>>, a value x that may be None is <<x>>        *)
(*   OrderedDict  a sequence of records [key, val] with distinct keys      *)
(*   exception    the name of the exception's class                        *)
(***************************************************************************)
EXTENDS Integers, Sequences, FiniteSets, TLC

\* ------------------------------------------------------------------------
\* Bounds of the model
\* ------------------------------------------------------------------------
MaxFiles == 2
MaxTime == 3
MaxLines == 4
MaxPolls == 3
PaletteLen == 2

VARIABLES
    exists,       \* file system: which absolute paths can be stat'ed
    mtime,        \* file system: st_mtime of every absolute path
    filepaths,    \* FileWatcher.filepaths
    _mtime,       \* FileWatcher._mtime, the baselines
    ret,          \* outcome of the last has_changed: "none" before any poll
    before,       \* history: _mtime as it was when the last poll started
    polled,       \* history: how many polls were made, saturating at 2
    prev,         \* history: outcome of the poll before the last one
    dirty,        \* history: tracked files given a new mtime since the last poll
    modified,     \* history: the value of dirty when the last poll started
    seen,         \* history: mtime when the last poll started
    seenEx,       \* history: exists when the last poll started
    outs,         \* history: the list out of the last poll
    text,         \* the lines of the CSV file, as f.readlines() returns them
    stage,        \* "start", "parsed" (parse_csv is over), "plotted"
    data,         \* Gantt.data: <<the mapping>>, None when parse_csv raised
    perr,         \* the exception parse_csv raised, None if it returned
    chart,        \* the state Gantt.plot left: bars, labels, legend, exception
    continuous,   \* args.continuous
    has_conf,     \* has_conf: the configuration file existed at startup
    conf,         \* what the configuration file says (see ConfValues)
    yaml_legacy,  \* the installed yaml.load can be called without a Loader
    lpc,          \* where the driver is: "poll", "render", "sleep", "done",
                  \* "crashed" (an exception ended the process)
    polls,        \* history: reads of has_changed made by the loop
    trues,        \* history: reads of has_changed that returned true
    renders,      \* history: figures saved
    sleeps,       \* history: calls of time.sleep(1)
    switched      \* history: update_conf changed args.continuous

watchVars == <<exists, mtime, filepaths, _mtime, ret, before, polled, prev,
               dirty, modified, seen, seenEx, outs>>

chartVars == <<text, stage, data, perr, chart>>

loopVars == <<continuous, has_conf, conf, yaml_legacy, lpc, polls, trues,
              renders, sleeps, switched>>

vars == <<watchVars, chartVars, loopVars>>

None == <<>>
Some(x) == <<x>>

\* The sequences over S of length at most n
SeqsUpTo(S, n) == UNION {[1..k -> S] : k \in 0..n}

\* ------------------------------------------------------------------------
\* Strings
\* ------------------------------------------------------------------------
Whitespace == {" ", "\n"}
Digits == <<"0", "1", "2", "3", "4", "5", "6", "7", "8", "9">>

\* str.strip()
RECURSIVE lstrip(_)
lstrip(s) == IF s # <<>> /\ Head(s) \in Whitespace THEN lstrip(Tail(s)) ELSE s

RECURSIVE rstrip(_)
rstrip(s) == IF s # <<>> /\ s[Len(s)] \in Whitespace
             THEN rstrip(SubSeq(s, 1, Len(s) - 1)) ELSE s

strip(s) == rstrip(lstrip(s))

\* str.startswith(c) for a one-character prefix
startswith(s, c) == s # <<>> /\ Head(s) = c

\* str.split(sep)
RECURSIVE split(_, _)
split(s, sep) ==
    IF \A i \in 1..Len(s) : s[i] # sep THEN <<s>>
    ELSE LET k == CHOOSE i \in 1..Len(s) :
                      s[i] = sep /\ \A j \in 1..(i - 1) : s[j] # sep
         IN  <<SubSeq(s, 1, k - 1)>> \o split(SubSeq(s, k + 1, Len(s)), sep)

\* sep.join(parts)
RECURSIVE join(_, _)
join(sep, parts) ==
    IF parts = <<>> THEN <<>>
    ELSE IF Len(parts) = 1 THEN parts[1]
    ELSE parts[1] \o <<sep>> \o join(sep, Tail(parts))

IsDigit(c) == \E d \in 1..10 : Digits[d] = c
DigitVal(c) == (CHOOSE d \in 1..10 : Digits[d] = c) - 1

RECURSIVE DecimalVal(_)
DecimalVal(s) == IF s = <<>> THEN 0
                 ELSE 10 * DecimalVal(SubSeq(s, 1, Len(s) - 1)) + DigitVal(s[Len(s)])

\* maybe_to_num: float(val) when val parses as a number, val itself
\* otherwise. float accepts surrounding whitespace; over the characters of
\* the model the numbers are the non-empty digit strings. A value is a
\* record: isnum tells a float (num) from a str (str).
maybe_to_num(val) ==
    LET t == strip(val) IN
    IF t # <<>> /\ \A i \in 1..Len(t) : IsDigit(t[i])
    THEN [isnum |-> TRUE, num |-> DecimalVal(t), str |-> <<>>]
    ELSE [isnum |-> FALSE, num |-> 0, str |-> val]

\* ------------------------------------------------------------------------
\* OrderedDict
\* ------------------------------------------------------------------------
HasKey(d, k) == \E i \in 1..Len(d) : d[i].key = k
KeyIndex(d, k) == CHOOSE i \in 1..Len(d) : d[i].key = k

\* d[k] = v: an existing key keeps its position
SetItem(d, k, v) ==
    IF HasKey(d, k) THEN [d EXCEPT ![KeyIndex(d, k)].val = v]
    ELSE Append(d, [key |-> k, val |-> v])

GetItem(d, k) == d[KeyIndex(d, k)].val

\* ------------------------------------------------------------------------
\* parse_csv
\* ------------------------------------------------------------------------
\* Variant of the else branch that looks the section up before it unpacks
\* the fields.
parse_task_lookup_first(line, st) ==
    LET parts == split(line, ",") IN
    IF st.current_section = None \/ ~HasKey(st.data, st.current_section[1])
    THEN [st EXCEPT !.exc = Some("KeyError")]
    ELSE IF Len(parts) < 2 THEN [st EXCEPT !.exc = Some("ValueError")]
    ELSE [st EXCEPT !.data = SetItem(st.data, st.current_section[1],
             Append(GetItem(st.data, st.current_section[1]),
                    [start |-> maybe_to_num(parts[1]),
                     finish |-> maybe_to_num(parts[2]),
                     item |-> join(",", SubSeq(parts, 3, Len(parts)))]))]

\* Variant of the else branch that takes a missing finish to be empty.
parse_task_padded(line, st) ==
    LET parts == split(line, ",")
        padded == IF Len(parts) < 2 THEN parts \o <<<<>>>> ELSE parts IN
    IF st.current_section = None \/ ~HasKey(st.data, st.current_section[1])
    THEN [st EXCEPT !.exc = Some("KeyError")]
    ELSE [st EXCEPT !.data = SetItem(st.data, st.current_section[1],
             Append(GetItem(st.data, st.current_section[1]),
                    [start |-> maybe_to_num(padded[1]),
                     finish |-> maybe_to_num(padded[2]),
                     item |-> join(",", SubSeq(padded, 3, Len(padded)))]))]

\* The else branch of the loop body: a task line. Unpacking parts[:2] into
\* two names raises ValueError when there is one field; data[None] and
\* data of an unknown key raise KeyError.
parse_task(line, st) ==
    LET parts == split(line, ",") IN
    IF Len(parts) < 2 THEN [st EXCEPT !.exc = Some("ValueError")]
    ELSE IF st.current_section = None \/ ~HasKey(st.data, st.current_section[1])
    THEN [st EXCEPT !.exc = Some("KeyError")]
    ELSE [st EXCEPT !.data = SetItem(st.data, st.current_section[1],
             Append(GetItem(st.data, st.current_section[1]),
                    [start |-> maybe_to_num(parts[1]),
                     finish |-> maybe_to_num(parts[2]),
                     item |-> join(",", SubSeq(parts, 3, Len(parts)))]))]

\* The body of the loop over the lines, for one line.
parse_line(raw, st) ==
    LET line == strip(raw) IN
    IF Len(line) <= 1 \/ startswith(line, "#") THEN st
    ELSE IF startswith(line, "*")
    THEN [st EXCEPT !.current_section = Some(strip(Tail(line))),
                    !.data = SetItem(st.data, strip(Tail(line)), <<>>)]
    ELSE parse_task(line, st)

RECURSIVE parse_lines(_, _)
parse_lines(lines, st) ==
    IF lines = <<>> \/ st.exc # None THEN st
    ELSE parse_lines(Tail(lines), parse_line(Head(lines), st))

\* parse_csv on the lines of the file: the exception raised if any, the
\* mapping otherwise.
parse_csv(lines) ==
    parse_lines(lines, [current_section |-> None, data |-> <<>>, exc |-> None])

\* ------------------------------------------------------------------------
\* Gantt
\* ------------------------------------------------------------------------
\* Gantt.colors: the colors of the property cycle, named by their position.
colors == [i \in 1..PaletteLen |-> i - 1]

\* Gantt._plot_bar: finish - start raises TypeError unless both are floats.
\* The handle barh returns is named by the number of the bar.
_plot_bar(ypos, start, finish, color, handle) ==
    IF ~start.isnum \/ ~finish.isnum THEN [exc |-> Some("TypeError")]
    ELSE [exc |-> None,
          bar |-> [ypos |-> ypos, left |-> start.num,
                   width |-> finish.num - start.num, color |-> color,
                   handle |-> handle]]

\* Variant of the inner loop body that keeps the first handle of a section.
plot_task_first_handle(title, sec, task, color, st) ==
    LET r == _plot_bar(Len(st.ylabels), task.start, task.finish, color,
                       Len(st.bars) + 1) IN
    IF r.exc # None THEN [st EXCEPT !.exc = r.exc]
    ELSE [st EXCEPT !.bars = Append(st.bars, r.bar),
                    !.owner = Append(st.owner, sec),
                    !.ylabels = Append(st.ylabels, task.item),
                    !.legend_items =
                        IF HasKey(st.legend_items, title) THEN st.legend_items
                        ELSE SetItem(st.legend_items, title, r.bar.handle)]

\* The body of the inner loop of plot, for one task of a section. owner is
\* history: the position of the section each bar was drawn for.
plot_task(title, sec, task, color, st) ==
    LET r == _plot_bar(Len(st.ylabels), task.start, task.finish, color,
                       Len(st.bars) + 1) IN
    IF r.exc # None THEN [st EXCEPT !.exc = r.exc]
    ELSE [st EXCEPT !.bars = Append(st.bars, r.bar),
                    !.owner = Append(st.owner, sec),
                    !.ylabels = Append(st.ylabels, task.item),
                    !.legend_items = SetItem(st.legend_items, title, r.bar.handle)]

RECURSIVE plot_tasks(_, _, _, _, _)
plot_tasks(title, sec, tasks, color, st) ==
    IF tasks = <<>> \/ st.exc # None THEN st
    ELSE plot_tasks(title, sec, Tail(tasks), color,
                    plot_task(title, sec, Head(tasks), color, st))

\* The outer loop of plot from section sec on. next(colors) raises
\* StopIteration once the iterator over Gantt.colors is exhausted.
\* section_colors is history: the color each section was given.
RECURSIVE plot_sections(_, _, _)
plot_sections(d, sec, st) ==
    IF sec > Len(d) \/ st.exc # None THEN st
    ELSE IF st.taken >= Len(colors) THEN [st EXCEPT !.exc = Some("StopIteration")]
    ELSE plot_sections(d, sec + 1,
             plot_tasks(d[sec].key, sec, d[sec].val, colors[st.taken + 1],
                        [st EXCEPT !.taken = st.taken + 1,
                                   !.section_colors =
                                       Append(st.section_colors, colors[st.taken + 1])]))

\* range(n)
range(n) == [i \in 1..n |-> i - 1]

\* Gantt.plot: the loop over the sections, then the ticks and the legend,
\* which are reached only if the loop raised nothing.
plot(d) ==
    LET st == plot_sections(d, 1,
                  [ylabels |-> <<>>, bars |-> <<>>, owner |-> <<>>,
                   legend_items |-> <<>>, taken |-> 0, section_colors |-> <<>>,
                   exc |-> None])
    IN  [ylabels |-> st.ylabels, bars |-> st.bars, owner |-> st.owner,
         legend_items |-> st.legend_items, section_colors |-> st.section_colors,
         exc |-> st.exc,
         yticks |-> IF st.exc = None THEN Some(range(Len(st.ylabels))) ELSE None,
         legend |-> IF st.exc = None
                    THEN Some([handles |-> [i \in 1..Len(st.legend_items) |->
                                               st.legend_items[i].val],
                               labels |-> [i \in 1..Len(st.legend_items) |->
                                               st.legend_items[i].key]])
                    ELSE None]

NoChart == [ylabels |-> <<>>, bars |-> <<>>, owner |-> <<>>,
            legend_items |-> <<>>, section_colors |-> <<>>, exc |-> None,
            yticks |-> None, legend |-> None]

\* The lines a file of the model is made of.
LineSet == {
    <<"\n">>,
    <<"#", "c", "\n">>,
    <<"*", "A", "\n">>,
    <<"*", " ", "B", " ", "\n">>,
    <<"*", "C", "\n">>,
    <<"*", "\n">>,
    <<"1", ",", "2", ",", "x", "\n">>,
    <<" ", "2", ",", "1", "3", ",", "y", ",", "z", "\n">>,
    <<"x", "y", "\n">>,
    <<"a", ",", "2", ",", "x", "\n">>
}

Texts == SeqsUpTo(LineSet, MaxLines)

ChartIdle ==
    /\ text = <<>>
    /\ stage = "idle"
    /\ data = None
    /\ perr = None
    /\ chart = NoChart

ChartInit ==
    /\ text \in Texts
    /\ stage = "start"
    /\ data = None
    /\ perr = None
    /\ chart = NoChart

\* Gantt.__init__ with a path: the file is parsed.
Parse ==
    /\ stage = "start"
    /\ LET r == parse_csv(text) IN
         /\ perr' = r.exc
         /\ data' = IF r.exc = None THEN Some(r.data) ELSE None
    /\ stage' = "parsed"
    /\ UNCHANGED <<text, chart, watchVars, loopVars>>

\* Gantt.plot on the parsed mapping.
Plot ==
    /\ stage = "parsed"
    /\ data # None
    /\ chart' = plot(data[1])
    /\ stage' = "plotted"
    /\ UNCHANGED <<text, data, perr, watchVars, loopVars>>

\* ------------------------------------------------------------------------
\* FileWatcher
\* ------------------------------------------------------------------------
Paths == {"a", "./a", "b"}
AbsFiles == {"/cwd/a", "/cwd/b"}

\* os.path.abspath: joins the working directory and normalises the path.
abspath(p) == IF p = "b" THEN "/cwd/b" ELSE "/cwd/a"

\* Variant of any: all(out).
RECURSIVE any_all(_)
any_all(out) == IF out = <<>> THEN TRUE ELSE Head(out) /\ any_all(Tail(out))

\* any(out)
RECURSIVE any(_)
any(out) == IF out = <<>> THEN FALSE ELSE Head(out) \/ any(Tail(out))

\* Variant of the loop that never stores the observed mtime.
RECURSIVE has_changed_loop_stale(_, _, _, _, _, _)
has_changed_loop_stale(idx, out, base, fps, ex, mt) ==
    IF idx > Len(fps) THEN [exc |-> None, out |-> out, base |-> base]
    ELSE IF ~ex[fps[idx]]
         THEN [exc |-> Some("OSError"), out |-> out, base |-> base]
         ELSE has_changed_loop_stale(idx + 1,
                  [out EXCEPT ![idx] = (Some(mt[fps[idx]]) # base[idx])],
                  base, fps, ex, mt)

\* Variant of the loop that returns at the first changed file.
RECURSIVE has_changed_loop_short(_, _, _, _, _, _)
has_changed_loop_short(idx, out, base, fps, ex, mt) ==
    IF idx > Len(fps) THEN [exc |-> None, out |-> out, base |-> base]
    ELSE IF ~ex[fps[idx]]
         THEN [exc |-> Some("OSError"), out |-> out, base |-> base]
         ELSE IF Some(mt[fps[idx]]) # base[idx]
              THEN [exc |-> None, out |-> [out EXCEPT ![idx] = TRUE],
                    base |-> [base EXCEPT ![idx] = Some(mt[fps[idx]])]]
              ELSE has_changed_loop_short(idx + 1, out, base, fps, ex, mt)

\* Variant of the loop that swallows the failure of os.stat and takes the
\* file's mtime to be None.
RECURSIVE has_changed_loop_swallow(_, _, _, _, _, _)
has_changed_loop_swallow(idx, out, base, fps, ex, mt) ==
    IF idx > Len(fps) THEN [exc |-> None, out |-> out, base |-> base]
    ELSE LET m == IF ex[fps[idx]] THEN Some(mt[fps[idx]]) ELSE None
         IN  has_changed_loop_swallow(idx + 1,
                  [out EXCEPT ![idx] = (m # base[idx])],
                  [base EXCEPT ![idx] = m],
                  fps, ex, mt)

\* The for loop of has_changed from index idx on. os.stat raises for a path
\* that cannot be stat'ed (an OSError such as FileNotFoundError, the
\* specification's FileAccessError), which leaves the loop with the
\* baselines of the earlier paths already updated.
RECURSIVE has_changed_loop(_, _, _, _, _, _)
has_changed_loop(idx, out, base, fps, ex, mt) ==
    IF idx > Len(fps) THEN [exc |-> None, out |-> out, base |-> base]
    ELSE IF ~ex[fps[idx]]
         THEN [exc |-> Some("OSError"), out |-> out, base |-> base]
         ELSE has_changed_loop(idx + 1,
                  [out EXCEPT ![idx] = (Some(mt[fps[idx]]) # base[idx])],
                  [base EXCEPT ![idx] = Some(mt[fps[idx]])],
                  fps, ex, mt)

\* FileWatcher.has_changed: the exception raised if any, the returned value
\* otherwise, and the baselines it leaves.
has_changed(fps, base, ex, mt) ==
    LET r == has_changed_loop(1, [i \in 1..Len(fps) |-> FALSE], base, fps, ex, mt)
    IN  [exc |-> r.exc, value |-> any(r.out), out |-> r.out, base |-> r.base]

Outcome(r) == IF r.exc # None THEN r.exc[1]
              ELSE IF r.value THEN "true" ELSE "false"

\* FileWatcher.__init__
FileWatcherInit(fps) ==
    /\ filepaths = [i \in 1..Len(fps) |-> abspath(fps[i])]
    /\ _mtime = [i \in 1..Len(fps) |-> None]

Tracked == {filepaths[i] : i \in 1..Len(filepaths)}

\* The driver is not run.
LoopIdle ==
    /\ continuous = FALSE
    /\ has_conf = FALSE
    /\ conf = [cont |-> "unset", fault |-> "none"]
    /\ yaml_legacy = TRUE
    /\ lpc = "idle"
    /\ polls = 0
    /\ trues = 0
    /\ renders = 0
    /\ sleeps = 0
    /\ switched = FALSE

WatchIdle ==
    /\ exists = [f \in AbsFiles |-> TRUE]
    /\ mtime = [f \in AbsFiles |-> 0]
    /\ filepaths = <<>>
    /\ _mtime = <<>>
    /\ ret = "none"
    /\ before = <<>>
    /\ polled = 0
    /\ prev = "none"
    /\ dirty = {}
    /\ modified = {}
    /\ seen = mtime
    /\ seenEx = exists
    /\ outs = <<>>

WatchInit ==
    /\ exists \in [AbsFiles -> BOOLEAN]
    /\ mtime \in [AbsFiles -> 0..1]
    /\ \E fps \in SeqsUpTo(Paths, MaxFiles) \ {<<>>} : FileWatcherInit(fps)
    /\ ret = "none"
    /\ before = _mtime
    /\ polled = 0
    /\ prev = "none"
    /\ dirty = {}
    /\ modified = {}
    /\ seen = mtime
    /\ seenEx = exists
    /\ outs = <<>>

\* The property has_changed is read once.
PollStep ==
    LET r == has_changed(filepaths, _mtime, exists, mtime) IN
    /\ _mtime' = r.base
    /\ ret' = Outcome(r)
    /\ before' = _mtime
    /\ polled' = IF polled < 2 THEN polled + 1 ELSE polled
    /\ prev' = ret
    /\ modified' = dirty
    /\ dirty' = {}
    /\ seen' = mtime
    /\ seenEx' = exists
    /\ outs' = r.out
    /\ UNCHANGED <<exists, mtime, filepaths>>

Poll == PollStep /\ UNCHANGED <<chartVars, loopVars>>

\* Environment: an existing file is written and gets a later mtime.
ModifyStep(f) ==
    /\ exists[f]
    /\ \E t \in (mtime[f] + 1)..MaxTime : mtime' = [mtime EXCEPT ![f] = t]
    /\ dirty' = dirty \cup ({f} \cap Tracked)
    /\ UNCHANGED <<exists, filepaths, _mtime, ret, before, polled, prev, modified,
                   seen, seenEx, outs>>

Modify(f) == ModifyStep(f) /\ UNCHANGED <<chartVars, loopVars>>

\* Environment: a file is removed.
DeleteStep(f) ==
    /\ exists[f]
    /\ exists' = [exists EXCEPT ![f] = FALSE]
    /\ UNCHANGED <<mtime, filepaths, _mtime, ret, before, polled, prev, dirty,
                   modified, seen, seenEx, outs>>

Delete(f) == DeleteStep(f) /\ UNCHANGED <<chartVars, loopVars>>

\* Environment: a missing file is created, with a later mtime.
CreateStep(f) ==
    /\ ~exists[f]
    /\ exists' = [exists EXCEPT ![f] = TRUE]
    /\ \E t \in (mtime[f] + 1)..MaxTime : mtime' = [mtime EXCEPT ![f] = t]
    /\ dirty' = dirty \cup ({f} \cap Tracked)
    /\ UNCHANGED <<filepaths, _mtime, ret, before, polled, prev, modified, seen,
                   seenEx, outs>>

Create(f) == CreateStep(f) /\ UNCHANGED <<chartVars, loopVars>>

WatchNext ==
    \/ Poll
    \/ \E f \in AbsFiles : Modify(f)
    \/ \E f \in AbsFiles : Delete(f)
    \/ \E f \in AbsFiles : Create(f)

\* A watcher is constructed; nothing is parsed and the driver is not run.
InitWatch == WatchInit /\ ChartIdle /\ LoopIdle

SpecWatch == InitWatch /\ [][WatchNext]_vars

\* ------------------------------------------------------------------------
\* The poll/render loop of the driver
\* ------------------------------------------------------------------------
\* args.file and args.conf
ArgFile == "a"
ArgConf == "b"

\* What the configuration file says, as far as the loop depends on it.
\*   cont   "on" and "off": the file sets continuous; "unset": it does not
\*   fault  "syntax": the file is not YAML, so yaml.load raises a
\*          YAMLError; "shape": the file is YAML but not a mapping (empty,
\*          a list, a scalar), so conf.items() raises AttributeError;
\*          "width": the file sets width to a value float() rejects, which
\*          raises when the figure is made, after the options were applied
\*          and the file was parsed; "none"
\* A file option is taken not to be set.
ConfValues == [cont : {"unset", "on", "off"},
               fault : {"none", "syntax", "shape", "width"}]

NoConf == [cont |-> "unset", fault |-> "none"]

\* The contents the CSV file takes during a run: a chart that renders, a
\* line that parse_csv rejects, a task that _plot_bar rejects.
LoopTexts == {
    << <<"*", "A", "\n">>, <<"1", ",", "2", ",", "x", "\n">> >>,
    << <<"x", "y", "\n">> >>,
    << <<"*", "A", "\n">>, <<"a", ",", "2", ",", "x", "\n">> >>
}

\* The script up to the loop: the arguments, has_conf, the watcher.
LoopInit ==
    /\ exists \in [AbsFiles -> BOOLEAN]
    /\ mtime = [f \in AbsFiles |-> 0]
    /\ continuous \in BOOLEAN
    /\ has_conf = exists[abspath(ArgConf)]
    /\ conf \in (IF has_conf THEN ConfValues ELSE {NoConf})
    /\ yaml_legacy \in BOOLEAN
    /\ FileWatcherInit(IF has_conf THEN <<ArgFile, ArgConf>> ELSE <<ArgFile>>)
    /\ ret = "none"
    /\ before = _mtime
    /\ polled = 0
    /\ prev = "none"
    /\ dirty = {}
    /\ modified = {}
    /\ seen = mtime
    /\ seenEx = exists
    /\ outs = <<>>
    /\ text \in LoopTexts
    /\ stage = "start"
    /\ data = None
    /\ perr = None
    /\ chart = NoChart
    /\ lpc = "poll"
    /\ polls = 0
    /\ trues = 0
    /\ renders = 0
    /\ sleeps = 0
    /\ switched = FALSE

\* if file_watcher.has_changed
LoopPoll ==
    /\ lpc = "poll"
    /\ polls < MaxPolls
    /\ PollStep
    /\ polls' = polls + 1
    /\ trues' = IF ret' = "true" THEN trues + 1 ELSE trues
    /\ lpc' = IF ret' = "true" THEN "render"
              ELSE IF ret' = "false" THEN "sleep" ELSE "crashed"
    /\ UNCHANGED <<chartVars, continuous, has_conf, conf, yaml_legacy, renders,
                   sleeps, switched>>

\* update_conf, when has_conf: the file is opened and loaded and its options
\* are set on args. open raises when the file is gone. yaml.load(f) has no
\* Loader argument: PyYAML 6 raises TypeError for it, earlier versions load
\* the file; conf.items() needs the loaded value to be a mapping. The result
\* is the exception raised if any, and args.continuous.
update_conf(c) ==
    IF ~exists[abspath(ArgConf)] THEN [exc |-> Some("OSError"), continuous |-> c]
    ELSE IF ~yaml_legacy THEN [exc |-> Some("TypeError"), continuous |-> c]
    ELSE IF conf.fault = "syntax" THEN [exc |-> Some("YAMLError"), continuous |-> c]
    ELSE IF conf.fault = "shape"
    THEN [exc |-> Some("AttributeError"), continuous |-> c]
    ELSE [exc |-> None,
          continuous |-> IF conf.cont = "on" THEN TRUE
                         ELSE IF conf.cont = "off" THEN FALSE ELSE c]

\* Variant of the end of the body that leaves the loop when continuous.
leave_inverted(c) == IF c THEN "done" ELSE "sleep"

\* The end of the body after a render: break unless continuous.
leave(c) == IF c THEN "sleep" ELSE "done"

\* The body of "if file_watcher.has_changed": the configuration is read
\* again, the file is parsed, the chart is plotted and saved, and the loop
\* is left unless args.continuous.
LoopRender ==
    /\ lpc = "render"
    /\ LET u == IF has_conf THEN update_conf(continuous)
                ELSE [exc |-> None, continuous |-> continuous]
           c == u.continuous
           p == parse_csv(text)
           openFails == ~exists[abspath(ArgFile)]
           widthFails == has_conf /\ conf.fault = "width"
           g == plot(p.data)
       IN  IF u.exc # None
           THEN /\ lpc' = "crashed"
                /\ UNCHANGED <<continuous, switched, stage, data, perr, chart, renders>>
           ELSE /\ continuous' = c
                /\ switched' = (switched \/ c # continuous)
                /\ IF openFails
                   THEN /\ lpc' = "crashed"
                        /\ UNCHANGED <<stage, data, perr, chart, renders>>
                   ELSE IF p.exc # None
                   THEN /\ lpc' = "crashed"
                        /\ stage' = "parsed"
                        /\ perr' = p.exc
                        /\ data' = None
                        /\ UNCHANGED <<chart, renders>>
                   ELSE IF widthFails
                   THEN /\ lpc' = "crashed"
                        /\ stage' = "parsed"
                        /\ perr' = None
                        /\ data' = Some(p.data)
                        /\ UNCHANGED <<chart, renders>>
                   ELSE /\ stage' = "plotted"
                        /\ perr' = None
                        /\ data' = Some(p.data)
                        /\ chart' = g
                        /\ IF g.exc # None
                           THEN lpc' = "crashed" /\ UNCHANGED renders
                           ELSE lpc' = leave(c) /\ renders' = renders + 1
    /\ UNCHANGED <<text, watchVars, has_conf, conf, yaml_legacy, polls, trues,
                   sleeps>>

\* time.sleep(1)
LoopSleep ==
    /\ lpc = "sleep"
    /\ lpc' = "poll"
    /\ sleeps' = sleeps + 1
    /\ UNCHANGED <<watchVars, chartVars, continuous, has_conf, conf, yaml_legacy,
                   polls, trues, renders, switched>>

Running == lpc \in {"poll", "render", "sleep"}

\* Environment: the CSV file is rewritten.
EditFile ==
    /\ Running
    /\ ModifyStep(abspath(ArgFile))
    /\ text' \in LoopTexts
    /\ UNCHANGED <<stage, data, perr, chart, loopVars>>

\* Environment: the configuration file is rewritten. What it says is
\* tracked only when the loop reads it (has_conf).
EditConf ==
    /\ Running
    /\ ModifyStep(abspath(ArgConf))
    /\ conf' \in (IF has_conf THEN ConfValues ELSE {NoConf})
    /\ UNCHANGED <<chartVars, continuous, has_conf, yaml_legacy, lpc, polls, trues,
                   renders, sleeps, switched>>

\* Environment: a file is removed or created.
LoopDelete == Running /\ \E f \in AbsFiles : Delete(f)
LoopCreate == Running /\ \E f \in AbsFiles : Create(f)

LoopNext ==
    \/ LoopPoll
    \/ LoopRender
    \/ LoopSleep
    \/ EditFile
    \/ EditConf
    \/ LoopDelete
    \/ LoopCreate

SpecLoop == LoopInit /\ [][LoopNext]_vars

ChartNext == Parse \/ Plot

\* A file is about to be parsed; there is no watcher and no driver.
InitChart == ChartInit /\ WatchIdle /\ LoopIdle

SpecChart == InitChart /\ [][ChartNext]_vars

\* ------------------------------------------------------------------------
\* Properties of the FileWatcher (under SpecWatch)
\* ------------------------------------------------------------------------
Returned == ret \in {"true", "false"}
Idx == 1..Len(filepaths)

\* The index at which the last poll failed: the first path missing then.
FailedAt == CHOOSE i \in Idx :
                /\ ~seenEx[filepaths[i]]
                /\ \A j \in 1..(i - 1) : seenEx[filepaths[j]]

\* C1: a poll that follows a modification of a tracked file (the file got a
\* new mtime since the poll before) and returns a value returns true, and a
\* poll that follows another poll with no modification in between does not
\* return true; so two consecutive polls are both true only if a tracked
\* file was modified between them.
C1_TrueOncePerModification ==
    /\ (Returned /\ modified # {}) => ret = "true"
    /\ (polled = 2 /\ modified = {}) => ret # "true"
    /\ (polled = 2 /\ modified = {} /\ Returned) => ret = "false"
    /\ (prev = "true" /\ ret = "true") => modified # {}

C1_Witness ==
    /\ polled = 2 /\ prev = "false" /\ modified # {} /\ ret = "true"
    /\ Len(filepaths) = 2

\* C2: the first poll of a fresh watcher that returns finds every tracked
\* file changed and returns true, and every poll that returns a value
\* returns the OR over the tracked files of "mtime at the poll differs from
\* the baseline the poll started with".
C2_FirstPollAndOr ==
    /\ (polled = 1 /\ Returned) =>
           /\ \A i \in Idx : before[i] = None /\ outs[i]
           /\ ret = "true"
    /\ Returned =>
           /\ \A i \in Idx : outs[i] = (Some(seen[filepaths[i]]) # before[i])
           /\ (ret = "true") =
                  (\E i \in Idx : Some(seen[filepaths[i]]) # before[i])

C2_Witness ==
    /\ polled = 2 /\ ret = "true" /\ Len(filepaths) = 2
    /\ filepaths[1] # filepaths[2]
    /\ \E i \in Idx : outs[i]
    /\ \E i \in Idx : ~outs[i]

\* C3 as stated: after any poll, whatever its outcome, the baseline of each
\* tracked file equals the mtime the file had at that poll.
C3_BaselineAfterAnyPoll ==
    ret # "none" =>
        \A i \in Idx : seenEx[filepaths[i]] => _mtime[i] = Some(seen[filepaths[i]])

\* C3 amended: a poll that returns a value has set the baseline of every
\* tracked file to the mtime observed in that poll, whether it returned true
\* or false and however many files had changed; a poll that fails at some
\* file has done so only for the files before that one and has left the
\* other baselines as they were.
C3_BaselineAfterReturn ==
    /\ Returned => \A i \in Idx : _mtime[i] = Some(seen[filepaths[i]])
    /\ ret = "OSError" =>
           \A i \in Idx :
               _mtime[i] = IF i < FailedAt THEN Some(seen[filepaths[i]])
                           ELSE before[i]

C3_Witness ==
    /\ polled = 2 /\ prev = "false" /\ ret = "true"
    /\ Cardinality(modified) = 2
    /\ \A i \in Idx : _mtime[i] # before[i]

\* C7: a poll that meets a tracked file that cannot be stat'ed raises the
\* error of os.stat and returns nothing, so it does not report true; this
\* includes the first poll of a watcher.
C7_StatFailurePropagates ==
    ret # "none" =>
        ((\E i \in Idx : ~seenEx[filepaths[i]]) <=> ret = "OSError")

C7_Witness ==
    /\ polled = 1 /\ ret = "OSError"
    /\ \E i \in Idx : seenEx[filepaths[i]]

\* ------------------------------------------------------------------------
\* Properties of parse_csv and Gantt.plot (under SpecChart)
\* ------------------------------------------------------------------------
\* The file as the format describes it, line by line.
Line(i) == strip(text[i])
IsHeader(l) == Len(l) > 1 /\ l[1] = "*"
IsTask(l) == Len(l) > 1 /\ l[1] \notin {"#", "*"}
HasComma(l) == \E i \in 1..Len(l) : l[i] = ","
HeaderIdx == {i \in 1..Len(text) : IsHeader(Line(i))}
TaskIdx == {i \in 1..Len(text) : IsTask(Line(i))}
NoCommaIdx == {i \in TaskIdx : ~HasComma(Line(i))}
FirstTask == CHOOSE i \in TaskIdx : \A j \in TaskIdx : i <= j

\* Every task line has two fields and comes after some section header.
ValidText ==
    \A i \in TaskIdx : HasComma(Line(i)) /\ \E j \in HeaderIdx : j < i

\* Some task line comes before every section header.
TaskBeforeAnyHeader == \E i \in TaskIdx : \A j \in HeaderIdx : i < j

\* The first task line has two fields and comes before every section header.
MissingSectionFirst ==
    /\ TaskIdx # {}
    /\ HasComma(Line(FirstTask))
    /\ \A j \in HeaderIdx : FirstTask < j

ParseOver == stage \in {"parsed", "plotted"}
Plotted == stage = "plotted"

\* C4: a valid file is parsed without error, and when plot completes the
\* chart has one row per task line of the file: no task is lost.
C4_RowsAreTheTaskLines ==
    /\ (ParseOver /\ ValidText) => perr = None
    /\ (Plotted /\ ValidText /\ chart.exc = None) =>
           /\ Len(chart.ylabels) = Cardinality(TaskIdx)
           /\ Len(chart.bars) = Cardinality(TaskIdx)

\* C5 as stated: whenever a task line comes before any section header,
\* parse_csv fails with the missing-section error (KeyError) and returns
\* no mapping.
C5_TaskBeforeHeaderIsKeyError ==
    (ParseOver /\ TaskBeforeAnyHeader) => (perr = Some("KeyError") /\ data = None)

\* C5 amended: parse_csv fails with the missing-section error (KeyError)
\* exactly when the first task line of the file has at least two fields and
\* comes before every section header; a first task line without a comma
\* fails with ValueError instead. A failed parse returns no mapping.
C5_KeyErrorIffFirstTaskUnsectioned ==
    ParseOver =>
        /\ (perr = Some("KeyError")) = MissingSectionFirst
        /\ (TaskBeforeAnyHeader /\ ~MissingSectionFirst) => perr = Some("ValueError")
        /\ perr # None => data = None

C5_Witness ==
    /\ stage = "parsed" /\ perr = Some("KeyError") /\ data = None
    /\ HeaderIdx # {} /\ FirstTask > 1

\* C6 as stated: whenever the file has a task line without a comma,
\* wherever it is, parse_csv fails with the malformed-line error
\* (ValueError).
C6_NoCommaIsValueError ==
    (ParseOver /\ NoCommaIdx # {}) => perr = Some("ValueError")

\* C6 amended: parse_csv fails with the malformed-line error (ValueError)
\* exactly when the file has a task line without a comma and no earlier line
\* made it fail, that is unless the first task line has two fields and
\* comes before every section header.
C6_ValueErrorIffFirstFailure ==
    ParseOver =>
        (perr = Some("ValueError")) = (NoCommaIdx # {} /\ ~MissingSectionFirst)

C6_Witness ==
    /\ stage = "parsed" /\ perr = Some("ValueError")
    /\ \E h \in HeaderIdx, t \in TaskIdx \ NoCommaIdx, n \in NoCommaIdx :
           h < t /\ t < n

\* C8: plot gives the i-th section the palette color i mod p and completes,
\* also when there are more sections than palette colors.
C8_PaletteCycles ==
    (Plotted /\ chart.exc # Some("TypeError")) =>
        /\ chart.exc = None
        /\ Len(chart.section_colors) = Len(data[1])
        /\ \A i \in 1..Len(chart.section_colors) :
               chart.section_colors[i] = colors[((i - 1) % Len(colors)) + 1]

\* The sections a bar was drawn for, and the last bar drawn for a section.
Drawn == {chart.owner[b] : b \in 1..Len(chart.owner)}
LastBar(sec) == CHOOSE b \in 1..Len(chart.owner) :
                    /\ chart.owner[b] = sec
                    /\ \A c \in 1..Len(chart.owner) : chart.owner[c] = sec => c <= b

\* C9 as stated: the legend has one entry per section of the mapping, in
\* section order, bound to the last bar of the section, also for sections
\* without tasks.
C9_LegendEntryPerSection ==
    (Plotted /\ chart.exc = None) =>
        /\ chart.legend[1].labels = [i \in 1..Len(data[1]) |-> data[1][i].key]
        /\ \A i \in 1..Len(data[1]) :
               /\ i \in Drawn
               /\ chart.legend[1].handles[i] = chart.bars[LastBar(i)].handle

\* C9 amended: legend_items has exactly one entry per section for which a
\* bar was drawn, in section order, bound to the last bar drawn for that
\* section; a section without tasks has no entry. When the loop over the
\* sections completes these are the sections with at least one task and the
\* legend is built from these entries; otherwise no legend is built.
C9_LegendEntryPerDrawnSection ==
    Plotted =>
        LET items == chart.legend_items
            SecOf(j) == KeyIndex(data[1], items[j].key) IN
        /\ Len(items) = Cardinality(Drawn)
        /\ \A j \in 1..Len(items) :
               /\ HasKey(data[1], items[j].key)
               /\ SecOf(j) \in Drawn
               /\ items[j].val = chart.bars[LastBar(SecOf(j))].handle
        /\ \A j, k \in 1..Len(items) : j < k => SecOf(j) < SecOf(k)
        /\ chart.exc = None =>
               /\ Drawn = {i \in 1..Len(data[1]) : data[1][i].val # <<>>}
               /\ chart.legend =
                      Some([handles |-> [j \in 1..Len(items) |-> items[j].val],
                            labels |-> [j \in 1..Len(items) |-> items[j].key]])
        /\ chart.exc # None => chart.legend = None

C9_Witness ==
    /\ Plotted /\ chart.exc = None
    /\ \E i \in 1..Len(data[1]) : data[1][i].val = <<>>
    /\ \E i \in 1..Len(data[1]) : Len(data[1][i].val) = 2
    /\ Len(chart.legend[1].labels) = 1
    /\ chart.legend[1].handles = <<2>>

\* ------------------------------------------------------------------------
\* Properties of the poll/render loop (under SpecLoop)
\* ------------------------------------------------------------------------
\* C10: the loop renders only after a poll that reported a change and once
\* for each such poll, sleeping once between two polls; a run that is not
\* continuous makes one poll, which reports a change unless it fails, then
\* renders and leaves the loop without a sleep; a continuous run never
\* leaves the loop.
C10_PollRenderLoop ==
    \* a render happens only after a poll that returned true, once per such poll
    /\ lpc = "render" => ret = "true"
    /\ renders <= trues
    /\ lpc \in {"poll", "sleep", "done"} => renders = trues
    \* the first poll reports a change unless it fails
    /\ (polls = 1 /\ lpc # "crashed") => trues = 1
    \* one sleep between two polls
    /\ lpc = "poll" => sleeps = polls
    /\ lpc \in {"render", "sleep"} => sleeps = polls - 1
    \* the loop is left only when not continuous, after a render
    /\ lpc = "done" => (~continuous /\ renders >= 1)
    \* a run that is not continuous ends at its first render, without a sleep
    /\ (~continuous /\ ~switched) =>
           /\ sleeps = 0 /\ polls <= 1 /\ renders <= 1
           /\ lpc # "sleep"
           /\ lpc = "poll" => polls = 0
           /\ renders = 1 => lpc = "done"
    /\ (lpc = "done" /\ ~switched) => (polls = 1 /\ renders = 1 /\ sleeps = 0)
    \* a continuous run does not leave the loop
    /\ (continuous /\ ~switched) => lpc # "done"

C10_Witness ==
    /\ continuous /\ ~switched /\ ~has_conf
    /\ polls = 3 /\ trues = 2 /\ renders = 2 /\ sleeps = 2
    /\ lpc = "sleep"

====
